---- MODULE Spec2Model ----
(***************************************************************************)
(* Model of src/main.py: a Streamlit script that collects same-domain      *)
(* links from a seed page, scrapes each page, stores the text in the table *)
(* scraped_data, deletes rows by url pattern, and keeps a chat transcript  *)
(* of questions answered by an external SQL agent.                         *)
(*                                                                         *)
(* Strings that the code inspects character by character (urls, hrefs,     *)
(* LIKE patterns) are sequences of one-character strings.  Page text is a  *)
(* run [ch, n]: the character ch repeated n times.                         *)
(*                                                                         *)
(* One browser session and one script run at a time are modelled; the      *)
(* database clock is taken to be monotone, and the SQL agent to read the   *)
(* table without changing it.                                              *)
(***************************************************************************)
EXTENDS Integers, Sequences, FiniteSets, TLC

VARIABLES
    table_exists,   \* the table scraped_data exists in the database
    table,          \* rows of scraped_data, in insertion order
    identity,       \* next value of the IDENTITY(1,1) column id
    now,            \* database clock read by GETDATE()
    session_state,  \* st.session_state: a function from keys to values
    pc,             \* "idle" | "scraping" (main.py:256 loop in progress)
    links,          \* main(): links
    i,              \* main(): number of loop iterations completed
    scraped_count,  \* main(): scraped_count
    attempted,      \* urls passed to scrape_page in the current run, in order
    run_base,       \* Len(table) when the current run started
    links_err,      \* get_page_links reported an error in the current run
    user_api_key,   \* the value of the API key field
    last,           \* the last handler step: its inputs and return values
    msgs            \* the st.error/st.success messages of the last step

vars == <<table_exists, table, identity, now, session_state, pc, links, i,
          scraped_count, attempted, run_base, links_err, user_api_key,
          last, msgs>>

-----------------------------------------------------------------------------
(* Bounds of the model *)
MaxClock == 2       \* clock ticks; every loop iteration takes one
MaxChat == 2        \* entries of the chat transcript
MaxAnchors == 3     \* anchors on a page in the link-collector specification

(* Program constants *)
MaxContentLen == 5000   \* content_text[:5000]
MinPages == 1           \* number_input min_value
MaxPages == 50          \* number_input max_value

-----------------------------------------------------------------------------
(* Strings *)
U_EX == <<"h", "t", "t", "p", "s", ":", "/", "/", "e", "x", "a", "m", "p", "l", "e", ".", "c", "o", "m">>   \* "https://example.com"
U_EX_A == <<"h", "t", "t", "p", "s", ":", "/", "/", "e", "x", "a", "m", "p", "l", "e", ".", "c", "o", "m", "/", "a">>   \* "https://example.com/a"
U_EVIL == <<"h", "t", "t", "p", "s", ":", "/", "/", "e", "x", "a", "m", "p", "l", "e", ".", "c", "o", "m", ".", "e", "v", "i", "l", ".", "n", "e", "t", "/", "x">>   \* "https://example.com.evil.net/x"
U_PORT == <<"h", "t", "t", "p", "s", ":", "/", "/", "e", "x", "a", "m", "p", "l", "e", ".", "c", "o", "m", ":", "8", "0", "8", "0", "/", "a">>   \* "https://example.com:8080/a"
U_NOSCHEME == <<"e", "x", "a", "m", "p", "l", "e", ".", "c", "o", "m">>   \* "example.com"
H_EMPTY == <<>>   \* ""
H_A == <<"/", "a">>   \* "/a"
H_REL == <<"b">>   \* "b"
H_BAD == <<"h", "t", "t", "p", "s", ":", "/", "/", "[">>   \* "https://["
P_WILD == <<"h", "t", "t", "p", "s", ":", "/", "/", "e", "x", "a", "m", "p", "l", "e", ".", "c", "o", "_">>   \* "https://example.co_"
P_QUOTE == <<"'">>   \* "'"
HTTP == <<"h", "t", "t", "p", ":", "/", "/">>   \* "http://"
HTTPS == <<"h", "t", "t", "p", "s", ":", "/", "/">>   \* "https://"

Min(a, b) == IF a <= b THEN a ELSE b

InSeq(x, s) == \E k \in 1..Len(s) : s[k] = x

NoDup(s) == \A j, k \in 1..Len(s) : j # k => s[j] # s[k]

Range(s) == {s[k] : k \in 1..Len(s)}

\* str.startswith(p)
StartsWith(s, p) == Len(p) <= Len(s) /\ SubSeq(s, 1, Len(p)) = p

-----------------------------------------------------------------------------
(* urllib.parse, for the url forms that occur in the model: absolute       *)
(* "scheme://netloc/path", root-relative "/path", relative "name" and the  *)
(* empty reference.                                                        *)

\* index of the first "://" in u, or 0
RECURSIVE SchemeEnd(_, _)
SchemeEnd(u, k) ==
    IF k + 2 > Len(u) THEN 0
    ELSE IF u[k] = ":" /\ u[k+1] = "/" /\ u[k+2] = "/" THEN k
    ELSE SchemeEnd(u, k + 1)

HasScheme(u) == SchemeEnd(u, 1) > 1

\* first index >= k of one of "/", "?", "#" in u, or Len(u) + 1
RECURSIVE NetlocEnd(_, _)
NetlocEnd(u, k) ==
    IF k > Len(u) THEN Len(u) + 1
    ELSE IF u[k] \in {"/", "?", "#"} THEN k
    ELSE NetlocEnd(u, k + 1)

\* urlparse(u).netloc
Netloc(u) ==
    IF ~HasScheme(u) THEN <<>>
    ELSE LET s == SchemeEnd(u, 1) + 3
         IN  SubSeq(u, s, NetlocEnd(u, s) - 1)

\* urlsplit raises ValueError("Invalid IPv6 URL") on unbalanced brackets
UrlParseRaises(u) ==
    LET n == Netloc(u)
    IN  (InSeq("[", n) /\ ~InSeq("]", n)) \/ (InSeq("]", n) /\ ~InSeq("[", n))

\* the part of a url before its path: "scheme://netloc"
Origin(u) ==
    LET s == SchemeEnd(u, 1) + 3
    IN  SubSeq(u, 1, NetlocEnd(u, s) - 1)

\* index of the first ":" in n, or Len(n) + 1
RECURSIVE PortStart(_, _)
PortStart(n, k) ==
    IF k > Len(n) THEN Len(n) + 1
    ELSE IF n[k] = ":" THEN k
    ELSE PortStart(n, k + 1)

\* urlparse(u).hostname for netlocs without userinfo: the netloc less its port
Host(u) == LET n == Netloc(u) IN SubSeq(n, 1, PortStart(n, 1) - 1)

UrlJoinRaises(base, href) == HasScheme(href) /\ UrlParseRaises(href)

\* index of the last "/" of u at or after k, or 0
RECURSIVE LastSlash(_, _)
LastSlash(u, k) ==
    IF k > Len(u) THEN 0
    ELSE LET r == LastSlash(u, k + 1)
         IN  IF r > 0 THEN r ELSE IF u[k] = "/" THEN k ELSE 0

\* urljoin(base, href); hrefs carry no query, fragment or dot segments
UrlJoin(base, href) ==
    IF href = <<>> THEN base
    ELSE IF HasScheme(href) THEN href
    ELSE IF Head(href) = "/" THEN Origin(base) \o href
    ELSE LET p == LastSlash(base, Len(Origin(base)) + 1)
         IN  IF p = 0 THEN Origin(base) \o <<"/">> \o href
             ELSE SubSeq(base, 1, p) \o href

-----------------------------------------------------------------------------
(* get_page_links *)

\* a same-domain test that accepts any netloc beginning with the seed's
SameDomain_Prefix(full_url, base_url) ==
    StartsWith(Netloc(full_url), Netloc(base_url))

\* the same-domain test of main.py:66
SameDomain(full_url, base_url) == Netloc(full_url) = Netloc(base_url)

\* an append without the membership test
AddLink_NoDedup(acc, full_url) == Append(acc, full_url)

\* main.py:67-68: append unless already collected
AddLink(acc, full_url) ==
    IF ~InSeq(full_url, acc) THEN Append(acc, full_url) ELSE acc

\* the loop of main.py:61-71 from anchor k on; raised = an exception left it
RECURSIVE CollectLoop(_, _, _, _, _)
CollectLoop(anchors, k, acc, base_url, max_pages) ==
    IF k > Len(anchors) THEN [links |-> acc, raised |-> FALSE]
    ELSE LET href == anchors[k] IN
         IF UrlJoinRaises(base_url, href)
         THEN [links |-> acc, raised |-> TRUE]
         ELSE LET full_url == UrlJoin(base_url, href) IN
              IF SameDomain(full_url, base_url)
              THEN LET acc2 == AddLink(acc, full_url)
                   IN  IF Len(acc2) >= max_pages
                       THEN [links |-> acc2, raised |-> FALSE]
                       ELSE CollectLoop(anchors, k + 1, acc2, base_url, max_pages)
              ELSE CollectLoop(anchors, k + 1, acc, base_url, max_pages)

\* an except branch that returns no link at all
LinksOnError_Empty(base_url) == <<>>

\* what the except branch of main.py:74-76 returns
LinksOnError(base_url) == <<base_url>>

\* fetch = [ok |-> FALSE] or [ok |-> TRUE, anchors |-> the hrefs of the page]
\* Returns the list and whether st.error was called.
get_page_links(base_url, max_pages, fetch) ==
    IF ~fetch.ok
    THEN [links |-> LinksOnError(base_url), err |-> TRUE]
    ELSE LET r == CollectLoop(fetch.anchors, 1, <<base_url>>, base_url, max_pages)
         IN  IF r.raised
             THEN [links |-> LinksOnError(base_url), err |-> TRUE]
             ELSE [links |-> SubSeq(r.links, 1, Min(max_pages, Len(r.links))),
                   err |-> FALSE]


-----------------------------------------------------------------------------
(* scrape_page *)

NO_TITLE == <<"N", "o", " ", "T", "i", "t", "l", "e">>   \* "No Title"

\* str.strip() for strings whose only whitespace is the space character
RECURSIVE LStrip(_)
LStrip(s) == IF s # <<>> /\ Head(s) = " " THEN LStrip(Tail(s)) ELSE s

RECURSIVE RStrip(_)
RStrip(s) ==
    IF s # <<>> /\ s[Len(s)] = " " THEN RStrip(SubSeq(s, 1, Len(s) - 1)) ELSE s

Strip(s) == RStrip(LStrip(s))

\* len() of a text run
StrLen(t) == t.n

\* t[:k] of a text run
Slice(t, k) == [ch |-> t.ch, n |-> Min(t.n, k)]

\* content stored without the limit
LimitContent_None(t) == t

\* content_text[:5000] of main.py:108
LimitContent(t) == Slice(t, MaxContentLen)

\* an extractor that returns an empty record instead of None on failure
scrape_page_EmptyRecord(url, fetch) ==
    [ok |-> TRUE,
     url |-> url,
     title |-> IF fetch.ok /\ fetch.title.has THEN Strip(fetch.title.text) ELSE NO_TITLE,
     content |-> IF fetch.ok THEN LimitContent(fetch.text) ELSE [ch |-> "a", n |-> 0]]

\* fetch = [ok |-> FALSE] or [ok |-> TRUE, title |-> [has, text], text |-> run],
\* text being the whitespace-normalised page text of main.py:103.
\* Returns [ok |-> FALSE] for None.
scrape_page(url, fetch) ==
    IF ~fetch.ok THEN [ok |-> FALSE]
    ELSE [ok |-> TRUE,
          url |-> url,
          title |-> IF fetch.title.has THEN Strip(fetch.title.text) ELSE NO_TITLE,
          content |-> LimitContent(fetch.text)]

-----------------------------------------------------------------------------
(* Persistence layer *)

\* an id computed from the rows present, so that ids come back after a delete
NextRowId_Reuse(tbl, ident) == Len(tbl) + 1

\* the value the IDENTITY column takes for the next inserted row
NextRowId(tbl, ident) == ident

\* an insert whose parameters are bound in the wrong order
InsertRow_Swapped(tbl, ident, t, data) ==
    Append(tbl, [id |-> NextRowId(tbl, ident),
                 url |-> data.title,
                 title |-> data.url,
                 content |-> data.content,
                 scraped_at |-> t])

\* the table after INSERT INTO scraped_data (url, title, content) at time t
InsertRow(tbl, ident, t, data) ==
    Append(tbl, [id |-> NextRowId(tbl, ident),
                 url |-> data.url,
                 title |-> data.title,
                 content |-> data.content,
                 scraped_at |-> t])

\* T-SQL LIKE with the wildcards % and _ (bracket classes do not occur)
\* s[a..] matches p[b..]
RECURSIVE LikeFrom(_, _, _, _)
LikeFrom(s, p, a, b) ==
    IF b > Len(p) THEN a > Len(s)
    ELSE IF p[b] = "%"
         THEN LikeFrom(s, p, a, b + 1) \/ (a <= Len(s) /\ LikeFrom(s, p, a + 1, b))
    ELSE IF a > Len(s) THEN FALSE
    ELSE IF p[b] = "_" THEN LikeFrom(s, p, a + 1, b + 1)
    ELSE s[a] = p[b] /\ LikeFrom(s, p, a + 1, b + 1)

LikeMatch(s, p) == LikeFrom(s, p, 1, 1)

\* Lexing of the string literal of the DELETE statement of main.py:152, from
\* the character after its opening quote: '' is an escaped quote, a single
\* quote closes the literal.  The inputs carry no whitespace and no comment
\* marker, so any text after the closing quote fails to compile.
RECURSIVE LexLiteral(_, _, _)
LexLiteral(t, k, acc) ==
    IF k > Len(t) THEN [ok |-> FALSE, pat |-> acc]
    ELSE IF t[k] = "'"
         THEN IF k < Len(t) /\ t[k + 1] = "'"
              THEN LexLiteral(t, k + 2, Append(acc, "'"))
              ELSE [ok |-> k = Len(t), pat |-> acc]
    ELSE LexLiteral(t, k + 1, Append(acc, t[k]))

\* f'DELETE FROM scraped_data WHERE url LIKE \'{u}%\''
DeleteStatement(u) == LexLiteral(u \o <<"%", "'">>, 1, <<>>)

\* the rows left by a DELETE whose statement compiled to pattern pat
DeleteLike(tbl, pat) == SelectSeq(tbl, LAMBDA r : ~LikeMatch(r.url, pat))

\* SELECT * FROM scraped_data ORDER BY scraped_at DESC: every ordering of the
\* rows by decreasing scraped_at (ties in any order)
get_scraped_data(tbl) ==
    {[k \in 1..Len(tbl) |-> tbl[f[k]]] : f \in
        {g \in Permutations(1..Len(tbl)) :
            \A a, b \in 1..Len(tbl) :
                a < b => tbl[g[a]].scraped_at >= tbl[g[b]].scraped_at}}

-----------------------------------------------------------------------------
(* Inputs and environment outcomes *)

ApiKeys == {"gsk"}                          \* what is typed in the API key field
UrlInputs == {<<>>, U_EX, U_EVIL, U_NOSCHEME}   \* the Website URL field
PageCounts == {MinPages, MaxPages}          \* the Number of Pages field
ClearInputs == {<<>>, U_EX, P_WILD, P_QUOTE}
Questions == {"", "how many pages?"}        \* user_question

\* what requests.get + BeautifulSoup give get_page_links
SeedFetches ==
    {[ok |-> FALSE]} \cup
    {[ok |-> TRUE, anchors |-> a] :
        a \in {<<U_EX_A, H_EMPTY, U_PORT>>}}

\* what requests.get + BeautifulSoup give scrape_page
PageFetches ==
    {[ok |-> FALSE],
     [ok |-> TRUE, title |-> [has |-> FALSE, text |-> <<>>],
      text |-> [ch |-> "a", n |-> MaxContentLen + 1]],
     [ok |-> TRUE, title |-> [has |-> TRUE, text |-> <<" ", "H", "i", " ">>],
      text |-> [ch |-> "b", n |-> 12]]}

\* outcomes of a database call: done, failed before the statement ran,
\* failed after the statement ran (rolled back)
DbOutcomes == {"ok", "fail", "rollback"}

\* what agent_executor.run gives: an exception, or a text
AgentOutcomes ==
    {[ok |-> FALSE, text |-> ""], [ok |-> TRUE, text |-> ""],
     [ok |-> TRUE, text |-> "3 pages"]}

-----------------------------------------------------------------------------
(* Session state *)

Has(key) == key \in DOMAIN session_state

\* the transcript shown by main.py:348
ChatHistory == IF Has("chat_history") THEN session_state["chat_history"] ELSE <<>>

\* main.py:339-345: tab2 creates the history when an API key is present
InitChat(ss, key) ==
    IF key # "" /\ "chat_history" \notin DOMAIN ss
    THEN ss @@ ("chat_history" :> <<>>)
    ELSE ss

\* session_state.chat_history after the append of main.py:372
AppendChat(ss, q, a) ==
    [ss EXCEPT !["chat_history"] = Append(@, <<q, a>>)]

\* the truth value Python gives the return value of agent_sql_tool
Truthy(resp) == resp.ok /\ resp.text # ""

-----------------------------------------------------------------------------
(* The script runs of main() *)

Init ==
    /\ table_exists = FALSE
    /\ table = <<>>
    /\ identity = 1
    /\ now = 0
    /\ session_state = <<>>
    /\ pc = "idle"
    /\ links = <<>>
    /\ i = 0
    /\ scraped_count = 0
    /\ attempted = <<>>
    /\ run_base = 0
    /\ links_err = FALSE
    /\ user_api_key = ""
    /\ last = [op |-> "none"]
    /\ msgs = {}

RunVars == <<links, i, scraped_count, attempted, run_base, links_err>>
DbVars == <<table_exists, table, identity>>

\* First script run of a session, no button pressed: create_database_table
PageLoad(db) ==
    /\ pc = "idle"
    /\ ~Has("db_initialized")
    /\ table_exists' = (table_exists \/ db = "ok")
    /\ session_state' = session_state @@ ("db_initialized" :> (db = "ok"))
    /\ msgs' = IF db = "ok" THEN {} ELSE {"Database table creation error"}
    /\ last' = [op |-> "load", ret |-> (db = "ok")]
    /\ UNCHANGED <<table, identity, now, pc, RunVars, user_api_key>>

\* The API key field is edited: a script run with no button pressed
EnterApiKey(key) ==
    /\ pc = "idle"
    /\ Has("db_initialized")
    /\ key # user_api_key
    /\ user_api_key' = key
    /\ session_state' = InitChat(session_state, key)
    /\ last' = [op |-> "key"]
    /\ msgs' = {}
    /\ UNCHANGED <<DbVars, now, pc, RunVars>>

\* Time passes between user actions
Tick ==
    /\ pc = "idle"
    /\ now < MaxClock
    /\ now' = now + 1
    /\ last' = [op |-> "tick"]
    /\ msgs' = {}
    /\ UNCHANGED <<DbVars, session_state, pc, RunVars, user_api_key>>

\* "Start Scraping" pressed: main.py:233-252
StartScraping(url, num_pages, fetch) ==
    /\ pc = "idle"
    /\ Has("db_initialized")
    /\ IF url = <<>>
       THEN \* the button does nothing; the script goes on to tab2
            /\ ~fetch.ok /\ num_pages = MinPages      \* no fetch is made
            /\ session_state' = InitChat(session_state, user_api_key)
            /\ last' = [op |-> "start", url |-> url, called |-> FALSE,
                        fetch_ok |-> FALSE, started |-> FALSE]
            /\ msgs' = {}
            /\ UNCHANGED <<pc, RunVars>>
       ELSE IF ~(StartsWith(url, HTTP) \/ StartsWith(url, HTTPS))
       THEN /\ ~fetch.ok /\ num_pages = MinPages      \* no fetch is made
            /\ last' = [op |-> "start", url |-> url, called |-> FALSE,
                        fetch_ok |-> FALSE, started |-> FALSE]
            /\ msgs' = {"Please enter a valid URL"}
            /\ UNCHANGED <<session_state, pc, RunVars>>
       ELSE LET r == get_page_links(url, num_pages, fetch)
                e == IF r.err THEN {"Error getting page links"} ELSE {}
            IN  IF r.links = <<>>
                THEN /\ last' = [op |-> "start", url |-> url, called |-> TRUE,
                                  fetch_ok |-> fetch.ok, started |-> FALSE]
                     /\ msgs' = e \cup {"Could not find any pages to scrape"}
                     /\ UNCHANGED <<session_state, pc, RunVars>>
                ELSE /\ pc' = "scraping"
                     /\ links' = r.links
                     /\ i' = 0
                     /\ scraped_count' = 0
                     /\ attempted' = <<>>
                     /\ run_base' = Len(table)
                     /\ links_err' = r.err
                     /\ last' = [op |-> "start", url |-> url, called |-> TRUE,
                                  fetch_ok |-> fetch.ok, started |-> TRUE]
                     /\ msgs' = e \cup {"Found pages to scrape"}
                     /\ UNCHANGED session_state
    /\ UNCHANGED <<DbVars, now, user_api_key>>

\* save_to_database(data) at clock value t under database outcome db:
\* the return value, the table and the identity counter afterwards
save_to_database(data, db, tbl, ident, exists, t) ==
    IF db = "ok" /\ exists
    THEN [ret |-> TRUE, table |-> InsertRow(tbl, ident, t, data), identity |-> ident + 1]
    ELSE IF db = "rollback" /\ exists
    THEN [ret |-> FALSE, table |-> tbl, identity |-> ident + 1]
    ELSE [ret |-> FALSE, table |-> tbl, identity |-> ident]

\* a counter that counts extractions whether or not they were saved
CountAfter_Extracted(count, extracted, saved) ==
    IF extracted THEN count + 1 ELSE count

\* main.py:262-265: the counter after an iteration
CountAfter(count, extracted, saved) ==
    IF extracted /\ saved THEN count + 1 ELSE count

\* seconds the loop sleeps after each page: time.sleep(1)
SleepSeconds == 1

\* One iteration of the loop of main.py:256-274
ScrapeStep(fetch, db) ==
    /\ pc = "scraping"
    /\ i < Len(links)
    /\ now + SleepSeconds <= MaxClock
    /\ LET link == links[i + 1]
           data == scrape_page(link, fetch)
           s == IF data.ok
                THEN save_to_database(data, db, table, identity, table_exists, now)
                ELSE [ret |-> FALSE, table |-> table, identity |-> identity]
       IN  /\ data.ok \/ db = "ok"      \* no database call without data
           /\ attempted' = Append(attempted, link)
           /\ table' = s.table
           /\ identity' = s.identity
           /\ scraped_count' = CountAfter(scraped_count, data.ok, s.ret)
           /\ msgs' = IF ~data.ok THEN {"Error scraping"}
                      ELSE IF s.ret THEN {"Scraped and saved"}
                      ELSE {"Database save error", "Failed to save"}
           /\ last' = [op |-> "scrape", fetch |-> fetch, data |-> data,
                       saved |-> s.ret]
    /\ i' = i + 1
    /\ now' = now + SleepSeconds
    /\ UNCHANGED <<table_exists, session_state, pc, links, run_base, links_err,
                   user_api_key>>

\* The loop is over: the summary of main.py:276-287, then tab2
FinishRun ==
    /\ pc = "scraping"
    /\ i = Len(links)
    /\ pc' = "idle"
    /\ session_state' = InitChat(session_state, user_api_key)
    /\ last' = [op |-> "finish", scraped_count |-> scraped_count,
                 total |-> Len(links), attempted_all |-> (attempted = links),
                 inserted |-> Len(table) - run_base, links_err |-> links_err]
    /\ msgs' = {"Scraping completed"}
    /\ links' = <<>>
    /\ i' = 0
    /\ scraped_count' = 0
    /\ attempted' = <<>>
    /\ run_base' = 0
    /\ links_err' = FALSE
    /\ UNCHANGED <<DbVars, now, user_api_key>>

\* "View Scraped Data" pressed: main.py:290-306
ViewData(db) ==
    /\ pc = "idle"
    /\ Has("db_initialized")
    /\ IF db = "ok" /\ table_exists
       THEN \E df \in get_scraped_data(table) :
               /\ last' = [op |-> "view", ret |-> TRUE]
               /\ msgs' = IF df = <<>> THEN {"No data found"} ELSE {}
       ELSE /\ last' = [op |-> "view", ret |-> FALSE]
            /\ msgs' = {"Database retrieval error", "No data found"}
    /\ session_state' = InitChat(session_state, user_api_key)
    /\ UNCHANGED <<DbVars, now, pc, RunVars, user_api_key>>

\* clear_database(u) under database outcome db: return value and table
clear_database(u, db, tbl, exists) ==
    LET stmt == DeleteStatement(u)
    IN  IF db = "ok" /\ exists /\ stmt.ok
        THEN [ret |-> TRUE, table |-> DeleteLike(tbl, stmt.pat)]
        ELSE [ret |-> FALSE, table |-> tbl]

\* "Clear Database" pressed: main.py:309-315, with the Website URL field
ClearDatabase(u, db) ==
    /\ pc = "idle"
    /\ Has("db_initialized")
    /\ LET c == clear_database(u, db, table, table_exists)
       IN  /\ table' = c.table
           /\ last' = [op |-> "clear", u |-> u, ret |-> c.ret]
           /\ msgs' = IF c.ret THEN {"Database cleared successfully"}
                      ELSE {"Database clear error", "Failed to clear database"}
    /\ session_state' = InitChat(session_state, user_api_key)
    /\ UNCHANGED <<table_exists, identity, now, pc, RunVars, user_api_key>>

\* an append for every answer that is not None, the empty one included
Answered_NotNone(resp) == resp.ok

\* whether main.py:370-372 appends the pair to the history
Answered(resp) == Truthy(resp)

\* "Ask AI" pressed: main.py:366-377.  The agent's own statements are not
\* part of main.py; it is taken to read the table only.
AskAI(q, resp) ==
    /\ pc = "idle"
    /\ Has("db_initialized")
    /\ user_api_key # ""
    /\ LET ss == InitChat(session_state, user_api_key)
       IN  IF q = ""
           THEN /\ ~resp.ok /\ resp.text = ""        \* the agent is not called
                /\ session_state' = ss
                /\ last' = [op |-> "ask", q |-> q, asked |-> FALSE, resp |-> resp]
                /\ msgs' = {}
           ELSE /\ last' = [op |-> "ask", q |-> q, asked |-> TRUE, resp |-> resp]
                /\ IF Answered(resp)
                   THEN /\ Len(ss["chat_history"]) < MaxChat
                        /\ session_state' = AppendChat(ss, q, resp.text)
                        /\ msgs' = {}
                   ELSE /\ session_state' = ss
                        /\ msgs' = (IF resp.ok THEN {} ELSE {"Agent error"})
                                   \cup {"Failed to get response from AI agent"}
    /\ UNCHANGED <<DbVars, now, pc, RunVars, user_api_key>>

\* "Clear Chat" pressed: main.py:362-364
ClearChat ==
    /\ pc = "idle"
    /\ Has("db_initialized")
    /\ user_api_key # ""
    /\ session_state' = [InitChat(session_state, user_api_key) EXCEPT !["chat_history"] = <<>>]
    /\ last' = [op |-> "clear_chat"]
    /\ msgs' = {}
    /\ UNCHANGED <<DbVars, now, pc, RunVars, user_api_key>>

Next ==
    \/ \E db \in {"ok", "fail"} : PageLoad(db)
    \/ Tick
    \/ \E key \in ApiKeys : EnterApiKey(key)
    \/ \E url \in UrlInputs, n \in PageCounts, f \in SeedFetches :
          StartScraping(url, n, f)
    \/ \E f \in PageFetches, db \in DbOutcomes : ScrapeStep(f, db)
    \/ FinishRun
    \/ \E db \in {"ok", "fail"} : ViewData(db)
    \/ \E u \in ClearInputs, db \in {"ok", "fail"} : ClearDatabase(u, db)
    \/ \E q \in Questions, r \in AgentOutcomes : AskAI(q, r)
    \/ ClearChat

Spec == Init /\ [][Next]_vars

-----------------------------------------------------------------------------
(* The link collector on its own: inputs drawn at the start, one call *)

Hrefs == {H_EMPTY, H_A, H_REL, U_EX_A, U_EVIL, U_PORT, H_BAD}

RECURSIVE SeqsUpTo(_, _)
SeqsUpTo(S, n) ==
    IF n = 0 THEN {<<>>}
    ELSE LET shorter == SeqsUpTo(S, n - 1)
         IN  shorter \cup {Append(q, x) : q \in shorter, x \in S}

LinkSeeds == {U_EX, U_EX_A, U_EVIL}
LinkCaps == {MinPages, 2, 3, MaxPages}
LinkFetches ==
    {[ok |-> FALSE, anchors |-> <<>>]} \cup
    {[ok |-> TRUE, anchors |-> a] : a \in SeqsUpTo(Hrefs, MaxAnchors)}

InitLinks ==
    /\ table_exists = FALSE
    /\ table = <<>>
    /\ identity = 1
    /\ now = 0
    /\ session_state = <<>>
    /\ pc = "collect"
    /\ links = <<>>
    /\ i = 0
    /\ scraped_count = 0
    /\ attempted = <<>>
    /\ run_base = 0
    /\ links_err = FALSE
    /\ user_api_key = ""
    /\ \E url \in LinkSeeds, n \in LinkCaps, f \in LinkFetches :
          last = [op |-> "collect", url |-> url, num_pages |-> n, fetch |-> f]
    /\ msgs = {}

\* links = get_page_links(url, num_pages)
CollectLinks ==
    /\ pc = "collect"
    /\ LET r == get_page_links(last.url, last.num_pages, last.fetch)
       IN  /\ links' = r.links
           /\ links_err' = r.err
           /\ msgs' = IF r.err THEN {"Error getting page links"} ELSE {}
    /\ pc' = "collected"
    /\ UNCHANGED <<DbVars, now, session_state, i, scraped_count, attempted,
                   run_base, user_api_key, last>>

NextLinks == CollectLinks

SpecLinks == InitLinks /\ [][NextLinks]_vars

-----------------------------------------------------------------------------
(* Properties *)

Urls(tbl) == {tbl[k].url : k \in 1..Len(tbl)}
Ids(tbl) == {tbl[k].id : k \in 1..Len(tbl)}

\* the rows of tbl whose url does not start with the literal string u
WithoutPrefix(tbl, u) == SelectSeq(tbl, LAMBDA r : ~StartsWith(r.url, u))

\* C1: a clear_database(u) that returns True removes exactly the rows whose
\* url starts with the literal string u; clearing "https://example.com"
\* leaves a row "https://example.com.evil.net/x" in place.
C1_ClearIsLiteralPrefix ==
    [][(last'.op = "clear" /\ last'.ret) =>
          /\ table' = WithoutPrefix(table, last'.u)
          /\ (last'.u = U_EX /\ U_EVIL \in Urls(table) => U_EVIL \in Urls(table'))]_vars

\* the urls the anchors of a page resolve to
PageLinks(seed, anchors) ==
    {UrlJoin(seed, anchors[k]) :
        k \in {j \in 1..Len(anchors) : ~UrlJoinRaises(seed, anchors[j])}}

Resolvable(seed, anchors) ==
    \A k \in 1..Len(anchors) : ~UrlJoinRaises(seed, anchors[k])

\* N as the claim counts it: distinct links of the page on the seed's host
SameHostLinks(seed, anchors) ==
    {u \in PageLinks(seed, anchors) : Host(u) = Host(seed)}

\* N as the code counts it: distinct links with the seed's netloc, less the seed
CollectableLinks(seed, anchors) ==
    {u \in PageLinks(seed, anchors) : Netloc(u) = Netloc(seed) /\ u # seed}

C3_SameHost ==
    pc = "collected" =>
        /\ \A k \in 2..Len(links) : Host(links[k]) = Host(last.url)
        /\ (SameHostLinks(last.url, last.fetch.anchors) = {} => links = <<last.url>>)

C3_Witness ==
    /\ pc = "collected"
    /\ Len(links) = 2
    /\ U_EVIL \in PageLinks(last.url, last.fetch.anchors)
    /\ U_PORT \in PageLinks(last.url, last.fetch.anchors)
    /\ last.url = U_EX

\* C4: an iteration whose extraction and save both succeed adds exactly one
\* row, carrying the extractor's url, title and content, and leaves the rows
\* that were there as they were.
C4_SaveAddsOneRow ==
    [][(last'.op = "scrape" /\ last'.data.ok /\ last'.saved) =>
          /\ Len(table') = Len(table) + 1
          /\ SubSeq(table', 1, Len(table)) = table
          /\ table'[Len(table')].url = last'.data.url
          /\ table'[Len(table')].title = last'.data.title
          /\ table'[Len(table')].content = last'.data.content]_vars

C4_Witness ==
    /\ last.op = "scrape"
    /\ last.saved
    /\ Len(table) = 2
    /\ table[2].title # table[2].url
    /\ table[1].url # table[2].url

\* what C5 says of the rows of any one state
C5_RowsState ==
    /\ \A j, k \in 1..Len(table) : j < k => table[j].id < table[k].id
    /\ \A k \in 1..Len(table) : table[k].id < identity
    /\ \A j, k \in 1..Len(table) :
          (j # k /\ table[j].url = table[k].url) =>
              /\ table[j].id # table[k].id
              /\ table[j].scraped_at # table[k].scraped_at

\* what C5 says of any one step
C5_RowsStep ==
    /\ identity' >= identity
    /\ \A k \in 1..Len(table') :
          \/ table'[k] \in Range(table)
          \/ table'[k].id >= identity /\ table'[k].id \notin Ids(table)
    /\ (last'.op = "scrape" /\ last'.saved /\ last'.data.url \in Urls(table)) =>
          /\ Len(table') = Len(table) + 1
          /\ SubSeq(table', 1, Len(table)) = table

\* C5: rows are never updated: storing a url again adds a second row with a
\* new id and a new scraped_at; ids are unique, increase in insertion order
\* and are never handed out again, whatever is scraped or cleared.
C5_NoUpdate == []C5_RowsState /\ [][C5_RowsStep]_vars

C5_Witness ==
    /\ last.op = "scrape"
    /\ last.saved
    /\ Len(table) = 2
    /\ table[1].url = table[2].url
    /\ last.data.url = table[1].url

\* C6: when the fetch of the seed fails, get_page_links reports the error and
\* returns just the seed, whatever the cap; main goes on, and the run attempts
\* that one page and no other.
C6_SeedFetchFails ==
    [][/\ (last'.op = "start" /\ last'.called /\ ~last'.fetch_ok) =>
             /\ "Error getting page links" \in msgs'
             /\ links' = <<last'.url>>
             /\ last'.started
             /\ pc' = "scraping"
             /\ attempted' = <<>>
       /\ (last'.op = "scrape" /\ links_err) =>
             /\ links' = links
             /\ attempted' = links
       /\ (last'.op = "finish" /\ links_err) =>
             /\ attempted = links
             /\ Len(links) = 1]_vars

C6_Witness ==
    /\ last.op = "finish"
    /\ last.links_err
    /\ last.attempted_all
    /\ last.total = 1
    /\ Urls(table) = {U_EX}

\* C7: when the fetch of a page fails, scrape_page reports the error and
\* returns nothing, save_to_database is not called and the table is as it
\* was, and the loop goes on: a run ends only after every link was attempted.
C7_PageFetchFails ==
    [][/\ (last'.op = "scrape" /\ ~last'.fetch.ok) =>
             /\ ~last'.data.ok
             /\ "Error scraping" \in msgs'
             /\ ~last'.saved
             /\ table' = table
             /\ identity' = identity
             /\ scraped_count' = scraped_count
             /\ pc' = "scraping"
             /\ links' = links
             /\ i' = i + 1
       /\ (pc = "scraping" /\ pc' # "scraping") => attempted = links]_vars

C7_Witness ==
    /\ last.op = "scrape"
    /\ last.saved
    /\ i = 2
    /\ scraped_count = 1
    /\ Len(table) = run_base + 1

\* C8: the extractor's content, and the content of every stored row, is at
\* most 5000 characters long.
C8_ContentBound ==
    /\ (last.op = "scrape" /\ last.data.ok) => StrLen(last.data.content) <= MaxContentLen
    /\ \A k \in 1..Len(table) : StrLen(table[k].content) <= MaxContentLen

C8_Witness ==
    /\ last.op = "scrape"
    /\ last.saved
    /\ StrLen(last.fetch.text) > MaxContentLen
    /\ StrLen(table[Len(table)].content) = MaxContentLen

\* C9: the chat history changes only by the append of (question, answer)
\* after an agent call that returned a non-empty answer, or by the reset of
\* Clear Chat; nothing else changes it.
C9_ChatAppendOnly ==
    [][\/ ChatHistory' = ChatHistory
       \/ /\ last'.op = "ask"
          /\ last'.asked
          /\ last'.resp.ok
          /\ last'.resp.text # ""
          /\ ChatHistory' = Append(ChatHistory, <<last'.q, last'.resp.text>>)
       \/ /\ last'.op = "clear_chat"
          /\ ChatHistory' = <<>>]_vars

C9_Witness ==
    /\ last.op = "ask"
    /\ Len(ChatHistory) = 2
    /\ Len(table) = 1

\* C10: the loop attempts the links one by one in list order, each once; the
\* counter is the number of rows inserted by the run and lies between 0 and
\* the number of links.
C10_RunCounter ==
    /\ pc = "scraping" =>
          /\ 0 <= i /\ i <= Len(links)
          /\ attempted = SubSeq(links, 1, i)
          /\ 0 <= scraped_count /\ scraped_count <= i
          /\ scraped_count = Len(table) - run_base
    /\ last.op = "finish" =>
          /\ last.attempted_all
          /\ last.scraped_count = last.inserted
          /\ 0 <= last.scraped_count /\ last.scraped_count <= last.total

C10_Witness ==
    /\ last.op = "finish"
    /\ last.total = 2
    /\ last.scraped_count = 1
    /\ last.attempted_all
    /\ Urls(table) = {U_EX_A}

=============================================================================
